---- MODULE Spec2Model ----
(***************************************************************************)
(* Account analysis app: the Shell (AccountAnalysisApp), the Health panel  *)
(* (AccountRelationshipHealth) and the Research panel (AccountResearch).   *)
(*                                                                         *)
(* The panel variables describe ONE panel instance, of the class named by  *)
(* `kind`; the two classes share the change-detection guard and the fetch  *)
(* cycle, the Research panel adds the message ticker and the save action.  *)
(* A step is one macrotask of the event loop: a property assignment by the *)
(* host, a user event, a timer callback, or the settling of a remote call  *)
(* together with its whole then/catch/finally chain.                       *)
(***************************************************************************)
EXTENDS Integers, Sequences, FiniteSets, TLC

---------------------------------------------------------------------------
(* Bounds of the model                                                     *)

MaxTimers == 2       \* pending setTimeout callbacks of a component
MaxFetches == 2      \* remote fetches in flight in a panel
MaxSaves == 1        \* saves in flight in the Research panel
MaxIntervals == 2    \* setInterval timers alive in the browser
MaxTrigger == 2      \* largest trigger value the host assigns
MaxNow == 3          \* largest value of the wall clock
MaxAcvUnits == 30    \* closedWonACV runs over 0..MaxAcvUnits in each magnitude

---------------------------------------------------------------------------
(* Values                                                                  *)

\* null / undefined of a string-valued property
NULL == "null"
\* null / undefined of the numeric trigger (previousTrigger = null)
NullTrigger == -1
\* null / undefined of a structured value (payload, metrics, error)
NoData == [nil |-> TRUE]
\* loadingMessageInterval = null
NoInterval == 0

AccountIds == {"A", "B"}
IdValues == AccountIds \cup {NULL}
\* the record context of the hosting page: none, or a record
RecordIds == {NULL, "R"}
TriggerValues == {NullTrigger} \cup (0..MaxTrigger)

\* mutant: the guard tests for null only, so 0 counts as a trigger
TruthyTrigger_ZeroCounts(v) == v # NullTrigger

\* JavaScript truthiness of a trigger value: null, undefined and 0 are falsy
TruthyTrigger(v) == v # NullTrigger /\ v # 0

\* Text is a sequence of character tokens; the empty sequence stands for
\* "", null and undefined alike (all falsy).
MarkupChars == {"<", ">", "&", "\""}

---------------------------------------------------------------------------
(* State                                                                   *)

VARIABLES
  \* ---- the panel under observation
  kind,                    \* "health" or "research": the component class
  connected,               \* the panel is in the DOM
  recordId,                \* @api recordId
  _accountId,              \* backing field of @api accountId
  previousAccountId,
  _analysisTrigger,        \* backing field of @api analysisTrigger
  previousTrigger,
  isLoading,
  hasError,
  errorMessage,
  healthData,              \* Health panel
  metrics,                 \* Health panel
  data,                    \* Research panel
  isSaving,                \* Research panel
  currentLoadingMessage,   \* Research panel
  loadingMessageInterval,  \* Research panel: handle of the ticker
  loadingMessageIndex,     \* Research panel
  intervals,               \* setInterval timers of the panel alive in the browser
  timers,                  \* pending setTimeout callbacks of the panel, oldest first
  fetches,                 \* remote fetches in flight, oldest request first
  saves,                   \* saveCompanyResearch calls in flight
  \* ---- the Shell
  selectedAccountId,
  selectedAccountName,
  isAnalyzing,
  analysisTrigger,
  shellConnected,
  shellTimers,             \* pending setTimeout callbacks of the Shell, oldest first
  headerHidden,            \* the platform header has been hidden in the DOM
  now,                     \* Date.now()
  \* ---- observation
  toasts,                  \* ShowToastEvents dispatched by the last step
  op,                      \* the handler the last step ran
  arrived                  \* the request whose response the last step applied

panelVars == <<kind, connected, recordId, _accountId, previousAccountId,
               _analysisTrigger, previousTrigger, isLoading, hasError,
               errorMessage, healthData, metrics, data, isSaving,
               currentLoadingMessage, loadingMessageInterval,
               loadingMessageIndex, intervals, timers, fetches, saves>>

shellVars == <<selectedAccountId, selectedAccountName, isAnalyzing,
               analysisTrigger, shellConnected, shellTimers, headerHidden, now>>

vars == <<panelVars, shellVars, toasts, op, arrived>>

viewVars == <<isLoading, hasError, errorMessage, healthData, metrics, data>>
tickerVars == <<currentLoadingMessage, loadingMessageInterval,
                loadingMessageIndex, intervals>>
guardVars == <<_accountId, previousAccountId, _analysisTrigger, previousTrigger>>

---------------------------------------------------------------------------
(* The panels: construction                                                *)

LoadingMessages ==
  << "Researching company with Agentforce...",
     "Gathering web search results...",
     "Analyzing company information...",
     "Extracting key insights...",
     "Identifying growth opportunities...",
     "Compiling research summary..." >>

PanelInit ==
  /\ kind \in {"health", "research"}
  /\ connected = TRUE
  /\ recordId \in RecordIds
  /\ _accountId = NULL
  /\ previousAccountId = NULL
  /\ _analysisTrigger = NullTrigger
  /\ previousTrigger = NullTrigger
  /\ isLoading = FALSE
  /\ hasError = FALSE
  /\ errorMessage = ""
  /\ healthData = NoData
  /\ metrics = NoData
  /\ data = NoData
  /\ isSaving = FALSE
  /\ currentLoadingMessage = ""
  /\ loadingMessageInterval = NoInterval
  /\ loadingMessageIndex = 0
  /\ intervals = {}
  /\ timers = <<>>
  /\ fetches = <<>>
  /\ saves = <<>>

ShellInit ==
  /\ selectedAccountId = NULL
  /\ selectedAccountName = NULL
  /\ isAnalyzing = FALSE
  /\ analysisTrigger = 0
  /\ shellConnected = FALSE
  /\ shellTimers = <<>>
  /\ headerHidden = FALSE
  /\ now = 1

Init ==
  /\ PanelInit
  /\ ShellInit
  /\ toasts = <<>>
  /\ op = "constructor"
  /\ arrived = NoData

\* get currentAccountId(): explicit accountId, otherwise the inherited recordId
currentAccountId == IF _accountId # NULL THEN _accountId ELSE recordId

---------------------------------------------------------------------------
(* Remote payloads                                                         *)

\* x || [] of an optional list: <<>> is "missing", <<l>> is the list l
OrEmptyList(opt) == IF opt = <<>> THEN <<>> ELSE opt[1]

HealthOk ==
  [ healthStatus |-> "Excellent", score |-> 85, trend |-> "Improving",
    keyInsights |-> << <<"insight">> >>,
    recommendedActions |-> << <<"action">> >>,
    metrics |-> [closedWonACV |-> 2500000, closedLostACV |-> 3500],
    errorMessage |-> "" ]

HealthSoft ==
  [ healthStatus |-> "At Risk", score |-> 40, trend |-> "Declining",
    keyInsights |-> <<>>,
    recommendedActions |-> <<>>,
    metrics |-> [closedWonACV |-> 0, closedLostACV |-> 0],
    errorMessage |-> "Partial data" ]

\* what getRelationshipHealth may resolve with (NoData: a null result)
HealthResults == {NoData, HealthOk, HealthSoft}

NoFacts ==
  [ industry |-> <<>>, headquarters |-> <<>>, foundedYear |-> <<>>,
    employeeCountRange |-> <<>>, keyProducts |-> <<>>, targetMarket |-> <<>>,
    keyExecutives |-> <<>>, website |-> <<>>, recentNews |-> <<>>,
    recentNewsUrl |-> <<>>, growthIndicators |-> <<>> ]

ResearchHostile ==
  [ overview |-> <<"<", "script", ">", "alert(1)", "<", "/script", ">">>,
    facts |-> [NoFacts EXCEPT !.industry = <<"R", "&", "D">>,
                              !.foundedYear = <<"<", "b", ">">>,
                              !.website = <<"x.example/", "\"", ">">>,
                              !.recentNews = <<"a", "<", "b">>,
                              !.recentNewsUrl = <<"http", "://n.example/?a=1", "&", "b=2">>,
                              !.growthIndicators = <<">", "10%">>],
    links |-> [websiteUrl |-> <<>>, linkedinUrl |-> <<"\"", "onclick=">>,
               newsSearchUrl |-> <<>>],
    headlines |-> << NoData,
                     [title |-> <<"<", "i", ">">>, url |-> <<"http", "://h.example/", "\"">>] >> ]

ResearchEmpty ==
  [ overview |-> <<>>, facts |-> NoData, links |-> NoData, headlines |-> <<>> ]

\* what getCompanyResearch may resolve with (NoData: a null result)
ResearchResults == {NoData, ResearchEmpty, ResearchHostile}

\* what a remote call may reject with (NoData: rejected with undefined)
Errors == {NoData, [body |-> [message |-> "Apex exception"]]}

\* error?.body?.message || error?.message || fallback
ErrorText(error, fallback) ==
  IF "body" \in DOMAIN error /\ "message" \in DOMAIN error.body
    THEN error.body.message
    ELSE IF "message" \in DOMAIN error THEN error.message ELSE fallback

Toast(title, message, variant) ==
  [title |-> title, message |-> message, variant |-> variant]

---------------------------------------------------------------------------
(* Research panel: HTML serialisation                                      *)

\* The text is put in a text node inside a <div> and the div's textContent
\* is read back: textContent of an element is the concatenated text of its
\* text nodes, that is the text itself.
escapeHtml(text) == IF text = <<>> THEN <<>> ELSE text

StartsWithHttp(text) == Len(text) > 0 /\ text[1] = "http"

FactItem(label, text) ==
  IF text = <<>> THEN <<>>
  ELSE <<"<li><strong>" \o label \o ":</strong> ">> \o escapeHtml(text) \o <<"</li>">>

Anchor(url, body) ==
  <<"<a href=\"">> \o escapeHtml(url) \o <<"\" target=\"_blank\" rel=\"noopener\">">>
    \o body \o <<"</a>">>

OverviewHtml(d) ==
  IF d.overview = <<>> THEN <<>>
  ELSE <<"<h3>Company Overview</h3>", "<p>">> \o escapeHtml(d.overview) \o <<"</p>">>

SnapshotHtml(d) ==
  IF d.facts = NoData THEN <<>>
  ELSE LET facts == d.facts
           websiteUrl == IF StartsWithHttp(facts.website) THEN facts.website
                         ELSE <<"https://">> \o facts.website
       IN <<"<br/><h3>Company Snapshot</h3>", "<ul>">>
          \o FactItem("Industry", facts.industry)
          \o FactItem("Headquarters", facts.headquarters)
          \o (IF facts.foundedYear = <<>> THEN <<>>
              ELSE <<"<li><strong>Founded:</strong> ">> \o facts.foundedYear \o <<"</li>">>)
          \o FactItem("Employees", facts.employeeCountRange)
          \o FactItem("Key Products", facts.keyProducts)
          \o FactItem("Target Market", facts.targetMarket)
          \o FactItem("Key Executives", facts.keyExecutives)
          \o (IF facts.website = <<>> THEN <<>>
              ELSE <<"<li><strong>Website:</strong> ">>
                   \o Anchor(websiteUrl, escapeHtml(facts.website)) \o <<"</li>">>)
          \o <<"</ul>">>

NewsHtml(d) ==
  IF d.facts = NoData \/ d.facts.recentNews = <<>> THEN <<>>
  ELSE <<"<br/><h3>Recent News</h3>", "<p>">>
       \o (IF d.facts.recentNewsUrl # <<>>
             THEN Anchor(d.facts.recentNewsUrl, escapeHtml(d.facts.recentNews))
             ELSE escapeHtml(d.facts.recentNews))
       \o <<"</p>">>

GrowthHtml(d) ==
  IF d.facts = NoData \/ d.facts.growthIndicators = <<>> THEN <<>>
  ELSE <<"<br/><h3>Growth Indicators</h3>", "<p>">>
       \o escapeHtml(d.facts.growthIndicators) \o <<"</p>">>

LinkItem(url, label) ==
  IF url = <<>> THEN <<>> ELSE <<"<li>">> \o Anchor(url, <<label>>) \o <<"</li>">>

QuickLinksHtml(d) ==
  IF d.links = NoData
     \/ (d.links.websiteUrl = <<>> /\ d.links.linkedinUrl = <<>>
         /\ d.links.newsSearchUrl = <<>>)
    THEN <<>>
    ELSE <<"<br/><h3>Quick Links</h3>", "<ul>">>
         \o LinkItem(d.links.websiteUrl, "Company Website")
         \o LinkItem(d.links.linkedinUrl, "LinkedIn Profile")
         \o LinkItem(d.links.newsSearchUrl, "Recent News")
         \o <<"</ul>">>

RECURSIVE HeadlineItems(_)
HeadlineItems(hs) ==
  IF hs = <<>> THEN <<>>
  ELSE LET headline == Head(hs)
           item == IF headline = NoData \/ headline.title = <<>> THEN <<>>
                   ELSE IF headline.url # <<>>
                     THEN <<"<li>">> \o Anchor(headline.url, escapeHtml(headline.title))
                          \o <<"</li>">>
                     ELSE <<"<li>">> \o escapeHtml(headline.title) \o <<"</li>">>
       IN item \o HeadlineItems(Tail(hs))

HeadlinesHtml(d) ==
  IF d.headlines = <<>> THEN <<>>
  ELSE <<"<br/><h3>Recent Headlines</h3>", "<ul>">>
       \o HeadlineItems(d.headlines) \o <<"</ul>">>

formatDataAsHtml(d) ==
  IF d = NoData THEN <<>>
  ELSE OverviewHtml(d) \o SnapshotHtml(d) \o NewsHtml(d) \o GrowthHtml(d)
       \o QuickLinksHtml(d) \o HeadlinesHtml(d)

---------------------------------------------------------------------------
(* The panels: change-detection guard                                      *)

RemoveAt(seq, i) == SubSeq(seq, 1, i - 1) \o SubSeq(seq, i + 1, Len(seq))

\* mutant: the setter schedules a refresh for every non-empty identifier
AccountIdChanged_NoDedup(value, oldValue) == value # NULL

\* set accountId: the condition under which the setter schedules a refresh
\* (oldValue is _accountId before the assignment)
AccountIdChanged(value, oldValue) ==
  value # NULL /\ value # oldValue /\ value # previousAccountId

\* set analysisTrigger: the condition under which the setter schedules a refresh
TriggerChanged(value) ==
  TruthyTrigger(value) /\ value # previousTrigger /\ currentAccountId # NULL

\* set accountId(value)
SetAccountId(value) ==
  LET schedule == AccountIdChanged(value, _accountId) IN
  /\ connected
  /\ schedule => Len(timers) < MaxTimers
  /\ _accountId' = value
  /\ previousAccountId' = IF schedule THEN value ELSE previousAccountId
  /\ timers' = IF schedule
                 THEN Append(timers, [delay |-> 100, value |-> value])
                 ELSE timers
  /\ toasts' = <<>>
  /\ op' = "accountId"
  /\ arrived' = NoData
  /\ UNCHANGED <<kind, connected, recordId, _analysisTrigger, previousTrigger,
                 viewVars, isSaving, tickerVars, fetches, saves, shellVars>>

\* set analysisTrigger(value)
SetAnalysisTrigger(value) ==
  LET schedule == TriggerChanged(value) IN
  /\ connected
  /\ schedule => Len(timers) < MaxTimers
  /\ previousTrigger' = IF schedule THEN value ELSE previousTrigger
  /\ timers' = IF schedule
                 THEN Append(timers, [delay |-> 0, value |-> NULL])
                 ELSE timers
  /\ _analysisTrigger' = value
  /\ toasts' = <<>>
  /\ op' = "analysisTrigger"
  /\ arrived' = NoData
  /\ UNCHANGED <<kind, connected, recordId, _accountId, previousAccountId,
                 viewVars, isSaving, tickerVars, fetches, saves, shellVars>>

---------------------------------------------------------------------------
(* Research panel: the loading-message ticker                              *)

Ticker ==
  [ currentLoadingMessage |-> currentLoadingMessage,
    loadingMessageInterval |-> loadingMessageInterval,
    loadingMessageIndex |-> loadingMessageIndex,
    intervals |-> intervals ]

\* setInterval returns a handle no live timer has
NewIntervalId(alive) == CHOOSE id \in 1..(Cardinality(alive) + 1) : id \notin alive

startLoadingMessages(t) ==
  LET id == NewIntervalId(t.intervals) IN
  [ currentLoadingMessage |-> LoadingMessages[0 + 1],
    loadingMessageInterval |-> id,
    loadingMessageIndex |-> 0,
    intervals |-> t.intervals \cup {id} ]

stopLoadingMessages(t) ==
  [ currentLoadingMessage |-> "",
    loadingMessageInterval |-> NoInterval,
    loadingMessageIndex |-> t.loadingMessageIndex,
    intervals |-> IF t.loadingMessageInterval # NoInterval
                    THEN t.intervals \ {t.loadingMessageInterval}
                    ELSE t.intervals ]

SetTicker(t) ==
  /\ currentLoadingMessage' = t.currentLoadingMessage
  /\ loadingMessageInterval' = t.loadingMessageInterval
  /\ loadingMessageIndex' = t.loadingMessageIndex
  /\ intervals' = t.intervals

\* The callback of one live interval runs.
IntervalTick(id) ==
  /\ id \in intervals
  /\ loadingMessageIndex' = (loadingMessageIndex + 1) % Len(LoadingMessages)
  /\ currentLoadingMessage' = LoadingMessages[loadingMessageIndex' + 1]
  /\ toasts' = <<>>
  /\ op' = "interval"
  /\ arrived' = NoData
  /\ UNCHANGED <<kind, connected, recordId, guardVars, viewVars, isSaving,
                 loadingMessageInterval, intervals, timers, fetches, saves,
                 shellVars>>

\* disconnectedCallback (the Health panel has none)
Disconnect ==
  /\ connected
  /\ connected' = FALSE
  /\ IF kind = "research" THEN SetTicker(stopLoadingMessages(Ticker))
                          ELSE UNCHANGED tickerVars
  /\ toasts' = <<>>
  /\ op' = "disconnectedCallback"
  /\ arrived' = NoData
  /\ UNCHANGED <<kind, recordId, guardVars, viewVars, isSaving, timers,
                 fetches, saves, shellVars>>

---------------------------------------------------------------------------
(* The panels: the fetch cycle                                             *)

NewFetch(id) == [accountId |-> id, overtaken |-> FALSE]

\* mutant: handleRefresh() starts a load without clearing the error state
HealthRefresh_KeepsError ==
  /\ IF currentAccountId = NULL
       THEN /\ hasError' = TRUE
            /\ errorMessage' = "No account ID provided."
            /\ isLoading' = FALSE
            /\ fetches' = fetches
       ELSE /\ isLoading' = TRUE
            /\ UNCHANGED <<hasError, errorMessage>>
            /\ fetches' = Append(fetches, NewFetch(currentAccountId))
  /\ UNCHANGED <<healthData, metrics, data, tickerVars>>

\* handleRefresh() of the Health panel, up to the remote call
HealthRefresh ==
  /\ IF currentAccountId = NULL
       THEN /\ hasError' = TRUE
            /\ errorMessage' = "No account ID provided."
            /\ isLoading' = FALSE
            /\ fetches' = fetches
       ELSE /\ isLoading' = TRUE
            /\ hasError' = FALSE
            /\ errorMessage' = ""
            /\ fetches' = Append(fetches, NewFetch(currentAccountId))
  /\ UNCHANGED <<healthData, metrics, data, tickerVars>>

\* handleResearch() of the Research panel, up to the remote call
ResearchRefresh ==
  /\ IF currentAccountId = NULL
       THEN /\ hasError' = TRUE
            /\ errorMessage' = "No account ID provided."
            /\ isLoading' = FALSE
            /\ SetTicker(stopLoadingMessages(startLoadingMessages(Ticker)))
            /\ fetches' = fetches
       ELSE /\ isLoading' = TRUE
            /\ hasError' = FALSE
            /\ errorMessage' = ""
            /\ SetTicker(startLoadingMessages(Ticker))
            /\ fetches' = Append(fetches, NewFetch(currentAccountId))
  /\ UNCHANGED <<healthData, metrics, data>>

RefreshName == IF kind = "health" THEN "handleRefresh" ELSE "handleResearch"

\* The callback of a setTimeout runs only after every older timeout whose
\* delay is not larger.
CanFire(queue, i) == \A j \in 1..(i - 1) : queue[j].delay > queue[i].delay

\* mutant: the 100 ms callback refreshes without looking at the identifier
TimeoutRefreshes_Unchecked(t) == t.delay \in {0, 100}

\* the 100 ms callback re-checks the effective identifier; the 0 ms one does not
TimeoutRefreshes(t) == t.delay = 0 \/ currentAccountId = t.value

\* A deferred callback scheduled by one of the setters runs.
FireTimeout(i) ==
  LET t == timers[i]
      refreshes == TimeoutRefreshes(t)
  IN
  /\ i \in 1..Len(timers)
  /\ CanFire(timers, i)
  /\ (refreshes /\ currentAccountId # NULL) =>
        /\ Len(fetches) < MaxFetches
        /\ kind = "research" => Cardinality(intervals) < MaxIntervals
  /\ timers' = RemoveAt(timers, i)
  /\ IF refreshes
       THEN /\ IF kind = "health" THEN HealthRefresh ELSE ResearchRefresh
            /\ op' = RefreshName
       ELSE /\ UNCHANGED <<viewVars, tickerVars, fetches>>
            /\ op' = "timeout"
  /\ toasts' = <<>>
  /\ arrived' = NoData
  /\ UNCHANGED <<kind, connected, recordId, guardVars, isSaving, saves, shellVars>>

\* mutant: a response discards the requests older than its own
Settled_DropsOlder(i) == SubSeq(fetches, i + 1, Len(fetches))

\* the settled request leaves the list; older requests still in flight have
\* been overtaken by it
Settled(i) ==
  [j \in 1..(Len(fetches) - 1) |->
     IF j < i THEN [fetches[j] EXCEPT !.overtaken = TRUE] ELSE fetches[j + 1]]

\* healthData as built from a result in the then-callback
HealthDataOf(result) ==
  [ healthStatus |-> result.healthStatus,
    score |-> result.score,
    trend |-> result.trend,
    keyInsights |-> OrEmptyList(result.keyInsights),
    recommendedActions |-> OrEmptyList(result.recommendedActions) ]

\* Health panel: getRelationshipHealth resolves; then, (catch,) finally.
\* A null result makes the then-callback throw, which the catch handles.
HealthResolve(result) ==
  IF result = NoData
    THEN /\ hasError' = TRUE
         /\ errorMessage' = "Unable to load relationship health data."
         /\ toasts' = << Toast("Error",
                               "Failed to load relationship health: " \o "TypeError",
                               "error") >>
         /\ UNCHANGED <<healthData, metrics>>
    ELSE /\ healthData' = HealthDataOf(result)
         /\ metrics' = result.metrics
         /\ IF result.errorMessage # ""
              THEN /\ hasError' = TRUE
                   /\ errorMessage' = result.errorMessage
                   /\ toasts' = << Toast("Warning", result.errorMessage, "warning") >>
              ELSE /\ UNCHANGED <<hasError, errorMessage>>
                   /\ toasts' = <<>>

\* Health panel: getRelationshipHealth rejects; catch, finally.
\* Rejected with undefined, the catch-callback throws before its toast.
HealthReject(error) ==
  /\ hasError' = TRUE
  /\ errorMessage' = "Unable to load relationship health data."
  /\ toasts' = IF error = NoData THEN <<>>
               ELSE << Toast("Error",
                             "Failed to load relationship health: "
                               \o ErrorText(error, "undefined"),
                             "error") >>
  /\ UNCHANGED <<healthData, metrics>>

\* mutant: an empty result is handled as a failure
ResearchResolve_EmptyIsError(result) ==
  /\ data' = result
  /\ IF result = NoData \/ result.overview = <<>>
       THEN /\ hasError' = TRUE
            /\ errorMessage' = "No research results returned."
            /\ toasts' = << Toast("Error", errorMessage', "error") >>
       ELSE /\ toasts' = <<>>
            /\ UNCHANGED <<hasError, errorMessage>>

\* Research panel: getCompanyResearch resolves; then.
ResearchResolve(result) ==
  /\ data' = result
  /\ toasts' = IF result = NoData \/ result.overview = <<>>
                 THEN << Toast("Info", "No research results returned.", "info") >>
                 ELSE <<>>
  /\ UNCHANGED <<hasError, errorMessage>>

\* Research panel: getCompanyResearch rejects; catch.
ResearchReject(error) ==
  /\ hasError' = TRUE
  /\ errorMessage' = ErrorText(error, "Unable to research this account.")
  /\ toasts' = << Toast("Error", errorMessage', "error") >>
  /\ UNCHANGED data

\* mutant: the chain has no finally-callback
FetchFinally_Missing == UNCHANGED <<isLoading, tickerVars>>

\* finally-callback of the fetch
FetchFinally ==
  /\ isLoading' = FALSE
  /\ IF kind = "research" THEN SetTicker(stopLoadingMessages(Ticker))
                          ELSE UNCHANGED tickerVars

\* The remote fetch number i resolves with `result`.
Resolve(i, result) ==
  /\ i \in 1..Len(fetches)
  /\ fetches' = Settled(i)
  /\ IF kind = "health"
       THEN HealthResolve(result) /\ UNCHANGED data
       ELSE ResearchResolve(result) /\ UNCHANGED <<healthData, metrics>>
  /\ FetchFinally
  /\ op' = "resolve"
  /\ arrived' = fetches[i]
  /\ UNCHANGED <<kind, connected, recordId, guardVars, isSaving, timers, saves,
                 shellVars>>

\* The remote fetch number i rejects with `error`.
Reject(i, error) ==
  /\ i \in 1..Len(fetches)
  /\ fetches' = Settled(i)
  /\ IF kind = "health"
       THEN HealthReject(error) /\ UNCHANGED data
       ELSE ResearchReject(error) /\ UNCHANGED <<healthData, metrics>>
  /\ FetchFinally
  /\ op' = "reject"
  /\ arrived' = fetches[i]
  /\ UNCHANGED <<kind, connected, recordId, guardVars, isSaving, timers, saves,
                 shellVars>>

FetchResults == IF kind = "health" THEN HealthResults ELSE ResearchResults

---------------------------------------------------------------------------
(* Research panel: save to record                                          *)

\* handleSaveToRecord(), up to the remote call
HandleSaveToRecord ==
  LET htmlContent == formatDataAsHtml(data) IN
  /\ kind = "research"
  /\ connected
  /\ IF currentAccountId = NULL
       THEN /\ toasts' = << Toast("Error", "No account ID provided.", "error") >>
            /\ isSaving' = FALSE
            /\ saves' = saves
       ELSE /\ Len(saves) < MaxSaves
            /\ isSaving' = TRUE
            /\ saves' = Append(saves, [accountId |-> currentAccountId,
                                       htmlContent |-> htmlContent])
            /\ toasts' = <<>>
  /\ op' = "handleSaveToRecord"
  /\ arrived' = NoData
  /\ UNCHANGED <<kind, connected, recordId, guardVars, viewVars, tickerVars,
                 timers, fetches, shellVars>>

\* saveCompanyResearch resolves with its confirmation string; then, finally.
SaveResolve(i) ==
  /\ i \in 1..Len(saves)
  /\ saves' = RemoveAt(saves, i)
  /\ toasts' = << Toast("Success", "Research saved", "success") >>
  /\ isSaving' = FALSE
  /\ op' = "saveResolve"
  /\ arrived' = NoData
  /\ UNCHANGED <<kind, connected, recordId, guardVars, viewVars, tickerVars,
                 timers, fetches, shellVars>>

\* mutant: a failed save is reported as the panel's error state
SaveReject_ReportsInPanel(i, error) ==
  /\ i \in 1..Len(saves)
  /\ saves' = RemoveAt(saves, i)
  /\ toasts' = << Toast("Error",
                        ErrorText(error, "Unable to save account research."),
                        "error") >>
  /\ isSaving' = FALSE
  /\ hasError' = TRUE
  /\ errorMessage' = ErrorText(error, "Unable to save account research.")
  /\ op' = "saveReject"
  /\ arrived' = NoData
  /\ UNCHANGED <<kind, connected, recordId, guardVars, isLoading, healthData,
                 metrics, data, tickerVars, timers, fetches, shellVars>>

\* saveCompanyResearch rejects; catch, finally.
SaveReject(i, error) ==
  /\ i \in 1..Len(saves)
  /\ saves' = RemoveAt(saves, i)
  /\ toasts' = << Toast("Error",
                        ErrorText(error, "Unable to save account research."),
                        "error") >>
  /\ isSaving' = FALSE
  /\ op' = "saveReject"
  /\ arrived' = NoData
  /\ UNCHANGED <<kind, connected, recordId, guardVars, viewVars, tickerVars,
                 timers, fetches, shellVars>>

---------------------------------------------------------------------------
(* A panel on its own: the host assigns its properties freely.  The        *)
(* rotation callbacks of the Research panel's ticker, which write only     *)
(* loadingMessageIndex and currentLoadingMessage, run under TickerSpec.    *)

Next ==
  \/ \E value \in IdValues : SetAccountId(value)
  \/ \E value \in TriggerValues : SetAnalysisTrigger(value)
  \/ \E i \in 1..MaxTimers : FireTimeout(i)
  \/ \E i \in 1..MaxFetches : \E result \in FetchResults : Resolve(i, result)
  \/ \E i \in 1..MaxFetches : \E error \in Errors : Reject(i, error)
  \/ Disconnect

Spec == Init /\ [][Next]_vars

---------------------------------------------------------------------------
(* The Research panel with its ticker running: a panel without record      *)
(* context, one account and two trigger values                             *)

TickerInit == Init /\ kind = "research" /\ recordId = NULL

TickerNext ==
  \/ \E value \in {NULL, "A"} : SetAccountId(value)
  \/ \E value \in 1..MaxTrigger : SetAnalysisTrigger(value)
  \/ \E i \in 1..MaxTimers : FireTimeout(i)
  \/ \E i \in 1..MaxFetches : Resolve(i, ResearchEmpty)
  \/ \E i \in 1..MaxFetches : Reject(i, NoData)
  \/ \E id \in 1..MaxIntervals : IntervalTick(id)
  \/ Disconnect

TickerSpec == TickerInit /\ [][TickerNext]_vars

---------------------------------------------------------------------------
(* The Research panel with its save action                                 *)

SaveInit == Init /\ kind = "research" /\ recordId = NULL

SaveNext ==
  \/ \E value \in {NULL, "A"} : SetAccountId(value)
  \/ \E value \in 1..MaxTrigger : SetAnalysisTrigger(value)
  \/ \E i \in 1..MaxTimers : FireTimeout(i)
  \/ \E result \in ResearchResults : Resolve(1, result)
  \/ \E error \in Errors : Reject(1, error)
  \/ HandleSaveToRecord
  \/ \E i \in 1..MaxSaves : SaveResolve(i)
  \/ \E i \in 1..MaxSaves : \E error \in Errors : SaveReject(i, error)

SaveSpec == SaveInit /\ [][SaveNext]_vars

---------------------------------------------------------------------------
(* The Shell                                                               *)

\* event.detail.record of the record picker: absent, UI-API shaped with or
\* without a Name field, or flat
RecordShapes ==
  { NoData,
    [fields |-> [Name |-> [value |-> "Acme"]]],
    [fields |-> [Id |-> [value |-> "A"]]],
    [Name |-> "Acme"] }

\* the change events of the record picker; NoData is an event without detail
ChangeEvents ==
  {NoData} \cup [recordId : IdValues, record : RecordShapes]

\* the display name handleAccountChange takes from the event
AccountNameOf(record) ==
  IF record # NoData /\ "fields" \in DOMAIN record
    THEN IF "Name" \in DOMAIN record.fields THEN record.fields.Name.value ELSE NULL
    ELSE IF record # NoData /\ "Name" \in DOMAIN record
      THEN record.Name
      ELSE NULL

\* connectedCallback(): hideDefaultHeader() defers its DOM work by 200 ms
ShellConnect ==
  /\ ~shellConnected
  /\ shellTimers = <<>>
  /\ shellConnected' = TRUE
  /\ shellTimers' = Append(shellTimers, [delay |-> 200])
  /\ toasts' = <<>>
  /\ op' = "connectedCallback"
  /\ arrived' = NoData
  /\ UNCHANGED <<selectedAccountId, selectedAccountName, isAnalyzing,
                 analysisTrigger, headerHidden, now, panelVars>>

\* triggerAnalysis() with an account selected: the new busy flag, trigger and
\* timer queue
TriggerBump ==
  [ isAnalyzing |-> TRUE,
    analysisTrigger |-> now,
    shellTimers |-> Append(shellTimers, [delay |-> 500]) ]

\* mutant: clearing the selection stamps the trigger as a selection does
HandleAccountChange_ClearBumps(event) ==
  /\ shellConnected
  /\ IF event = NoData
       THEN /\ toasts' = << Toast("Error",
                                  "Failed to select account. Please try again.",
                                  "error") >>
            /\ UNCHANGED <<selectedAccountId, selectedAccountName, isAnalyzing,
                           analysisTrigger, shellTimers>>
       ELSE /\ Len(shellTimers) < MaxTimers
            /\ selectedAccountId' = event.recordId
            /\ selectedAccountName' =
                 (IF event.recordId # NULL THEN AccountNameOf(event.record) ELSE NULL)
            /\ isAnalyzing' = TriggerBump.isAnalyzing
            /\ analysisTrigger' = TriggerBump.analysisTrigger
            /\ shellTimers' = TriggerBump.shellTimers
            /\ toasts' = <<>>
  /\ op' = "handleAccountChange"
  /\ arrived' = NoData
  /\ UNCHANGED <<shellConnected, headerHidden, now, panelVars>>

\* handleAccountChange(event)
HandleAccountChange(event) ==
  /\ shellConnected
  /\ IF event = NoData
       THEN /\ toasts' = << Toast("Error",
                                  "Failed to select account. Please try again.",
                                  "error") >>
            /\ UNCHANGED <<selectedAccountId, selectedAccountName, isAnalyzing,
                           analysisTrigger, shellTimers>>
       ELSE IF event.recordId # NULL
         THEN /\ Len(shellTimers) < MaxTimers
              /\ selectedAccountId' = event.recordId
              /\ selectedAccountName' = AccountNameOf(event.record)
              /\ isAnalyzing' = TriggerBump.isAnalyzing
              /\ analysisTrigger' = TriggerBump.analysisTrigger
              /\ shellTimers' = TriggerBump.shellTimers
              /\ toasts' = <<>>
         ELSE /\ selectedAccountId' = NULL
              /\ selectedAccountName' = NULL
              /\ toasts' = <<>>
              /\ UNCHANGED <<isAnalyzing, analysisTrigger, shellTimers>>
  /\ op' = "handleAccountChange"
  /\ arrived' = NoData
  /\ UNCHANGED <<shellConnected, headerHidden, now, panelVars>>

\* mutant: handleAnalyze() calls triggerAnalysis() without its own check, and
\* triggerAnalysis() returns silently when nothing is selected
HandleAnalyze_Unguarded ==
  /\ shellConnected
  /\ IF selectedAccountId = NULL
       THEN UNCHANGED <<isAnalyzing, analysisTrigger, shellTimers>>
       ELSE /\ Len(shellTimers) < MaxTimers
            /\ isAnalyzing' = TriggerBump.isAnalyzing
            /\ analysisTrigger' = TriggerBump.analysisTrigger
            /\ shellTimers' = TriggerBump.shellTimers
  /\ toasts' = <<>>
  /\ op' = "handleAnalyze"
  /\ arrived' = NoData
  /\ UNCHANGED <<selectedAccountId, selectedAccountName, shellConnected,
                 headerHidden, now, panelVars>>

\* handleAnalyze()
HandleAnalyze ==
  /\ shellConnected
  /\ IF selectedAccountId = NULL
       THEN /\ toasts' = << Toast("Error", "Please select an account first", "error") >>
            /\ UNCHANGED <<isAnalyzing, analysisTrigger, shellTimers>>
       ELSE /\ Len(shellTimers) < MaxTimers
            /\ isAnalyzing' = TriggerBump.isAnalyzing
            /\ analysisTrigger' = TriggerBump.analysisTrigger
            /\ shellTimers' = TriggerBump.shellTimers
            /\ toasts' = <<>>
  /\ op' = "handleAnalyze"
  /\ arrived' = NoData
  /\ UNCHANGED <<selectedAccountId, selectedAccountName, shellConnected,
                 headerHidden, now, panelVars>>

\* A setTimeout callback of the Shell runs: the header scan (200 ms), which
\* hides the platform header when the page has one, or the busy-flag reset
\* (500 ms).
ShellTimeout(i) ==
  /\ i \in 1..Len(shellTimers)
  /\ CanFire(shellTimers, i)
  /\ shellTimers' = RemoveAt(shellTimers, i)
  /\ IF shellTimers[i].delay = 200
       THEN /\ \E found \in BOOLEAN : headerHidden' = (headerHidden \/ found)
            /\ UNCHANGED isAnalyzing
            /\ op' = "hideDefaultHeader"
       ELSE /\ isAnalyzing' = FALSE
            /\ UNCHANGED headerHidden
            /\ op' = "resetAnalyzing"
  /\ toasts' = <<>>
  /\ arrived' = NoData
  /\ UNCHANGED <<selectedAccountId, selectedAccountName, analysisTrigger,
                 shellConnected, now, panelVars>>

\* The Shell leaves the DOM (it has no disconnectedCallback).
ShellDisconnect ==
  /\ shellConnected
  /\ shellConnected' = FALSE
  /\ toasts' = <<>>
  /\ op' = "shellDisconnected"
  /\ arrived' = NoData
  /\ UNCHANGED <<selectedAccountId, selectedAccountName, isAnalyzing,
                 analysisTrigger, shellTimers, headerHidden, now, panelVars>>

\* The wall clock advances by a millisecond.
Tick ==
  /\ now < MaxNow
  /\ now' = now + 1
  /\ UNCHANGED <<selectedAccountId, selectedAccountName, isAnalyzing,
                 analysisTrigger, shellConnected, shellTimers, headerHidden,
                 panelVars, toasts, op, arrived>>

ShellNext ==
  \/ ShellConnect
  \/ \E event \in ChangeEvents : HandleAccountChange(event)
  \/ HandleAnalyze
  \/ \E i \in 1..MaxTimers : ShellTimeout(i)
  \/ ShellDisconnect
  \/ Tick

\* the panel variables are not used: any one panel state
ShellSpecInit == Init /\ kind = "health" /\ recordId = NULL

ShellSpec == ShellSpecInit /\ [][ShellNext]_vars

---------------------------------------------------------------------------
(* Every remote call eventually resolves or rejects                        *)

\* A panel without record context, with one account and the trigger values
\* of the host, all outcomes of the remote call.
FairInit == Init /\ recordId = NULL

FairNext ==
  \/ \E value \in {NULL, "A"} : SetAccountId(value)
  \/ \E value \in 1..MaxTrigger : SetAnalysisTrigger(value)
  \/ \E i \in 1..MaxTimers : FireTimeout(i)
  \/ \E i \in 1..MaxFetches : \E result \in FetchResults : Resolve(i, result)
  \/ \E i \in 1..MaxFetches : \E error \in Errors : Reject(i, error)

SettleSome ==
  \E i \in 1..MaxFetches :
    \/ \E result \in FetchResults : Resolve(i, result)
    \/ \E error \in Errors : Reject(i, error)

FairSpec == FairInit /\ [][FairNext]_vars /\ WF_vars(SettleSome)

---------------------------------------------------------------------------
(* Properties                                                              *)

IsRefresh(name) == name \in {"handleRefresh", "handleResearch"}
IsSettle(name) == name \in {"resolve", "reject"}

\* no trigger value has been assigned to the panel yet
TriggerNeverSet == _analysisTrigger = NullTrigger /\ previousTrigger = NullTrigger

\* C1: every assignment of analysisTrigger schedules at most one refresh, and
\* schedules none when the assigned value equals the trigger value the panel
\* observed last (the value of the previous assignment).
C1_OneRefreshPerTrigger ==
  [][\A value \in TriggerValues :
       SetAnalysisTrigger(value) =>
         /\ Len(timers') <= Len(timers) + 1
         /\ value = _analysisTrigger => timers' = timers]_vars

\* C2 as stated: while the trigger has never been set, assigning a non-empty
\* account identifier that differs from the current one leads to exactly one
\* refresh call (one deferred callback, whose run calls the refresh routine),
\* and assigning the current identifier again leads to none.
C2_Original ==
  [][/\ \A value \in AccountIds :
          (SetAccountId(value) /\ TriggerNeverSet) =>
            IF value # _accountId
              THEN timers' = Append(timers, [delay |-> 100, value |-> value])
              ELSE timers' = timers
     /\ \A i \in 1..Len(timers) :
          (FireTimeout(i) /\ TriggerNeverSet) =>
            /\ IsRefresh(op')
            /\ fetches' = Append(fetches, NewFetch(timers[i].value))]_vars

\* C2 as amended: while the trigger has never been set, assigning a non-empty
\* account identifier that differs from the current one and from
\* previousAccountId schedules exactly one deferred callback; when that
\* callback runs it calls the refresh routine exactly once (one fetch for the
\* assigned identifier) if the effective identifier still equals the assigned
\* one, and does nothing otherwise; assigning the current identifier again, or
\* the identifier in previousAccountId, schedules nothing.
C2_AccountChangeRefreshesOnce ==
  [][/\ \A value \in AccountIds :
          (SetAccountId(value) /\ TriggerNeverSet) =>
            IF value # _accountId /\ value # previousAccountId
              THEN timers' = Append(timers, [delay |-> 100, value |-> value])
              ELSE timers' = timers
     /\ \A i \in 1..Len(timers) :
          (FireTimeout(i) /\ TriggerNeverSet) =>
            IF currentAccountId = timers[i].value
              THEN /\ IsRefresh(op')
                   /\ fetches' = Append(fetches, NewFetch(timers[i].value))
              ELSE /\ ~IsRefresh(op')
                   /\ UNCHANGED <<viewVars, fetches>>]_vars

\* C2 witness: with the trigger never set, the account-driven callback has
\* just issued the only fetch, for the assigned identifier.
C2_Witness ==
  /\ TriggerNeverSet
  /\ IsRefresh(op)
  /\ timers = <<>>
  /\ fetches = << NewFetch(previousAccountId) >>
  /\ _accountId = previousAccountId

\* C3: handleAnalyze with no account selected dispatches an error toast and
\* changes neither the trigger, the busy flag, nor the selection; with an
\* account selected it assigns the trigger once (one bump, one reset timer).
C3_AnalyzeGuard ==
  [][HandleAnalyze =>
       IF selectedAccountId = NULL
         THEN /\ Len(toasts') = 1
              /\ toasts'[1].variant = "error"
              /\ UNCHANGED <<analysisTrigger, isAnalyzing, selectedAccountId,
                             selectedAccountName, shellTimers>>
         ELSE /\ analysisTrigger' = now
              /\ isAnalyzing'
              /\ shellTimers' = Append(shellTimers, [delay |-> 500])
              /\ UNCHANGED <<selectedAccountId, selectedAccountName>>
              /\ toasts' = <<>>]_vars

\* C3 witness: Analyze was pressed after the selection had been cleared; the
\* error toast is out and the trigger of the earlier bump is still there.
C3_Witness ==
  /\ op = "handleAnalyze"
  /\ selectedAccountId = NULL
  /\ Len(toasts) = 1
  /\ analysisTrigger > 0

\* C4: once every fetch of the Research panel has settled, no rotation
\* interval started by the panel is still alive.
C4_NoIntervalAfterSettle ==
  (kind = "research" /\ fetches = <<>>) => intervals = {}

\* C5: the HTML a save submits contains no markup character that comes from
\* the data.
C5_SavedHtmlEscaped ==
  \A i \in 1..Len(saves) :
    \A k \in 1..Len(saves[i].htmlContent) :
      saves[i].htmlContent[k] \notin MarkupChars

\* C6: no refresh is scheduled by the assignment of an initial trigger value
\* (0, null, undefined), nor by an assignment (of trigger or account
\* identifier) that leaves no account identifier resolved.
C6_NoRefreshOnInitialOrUnresolved ==
  [][/\ \A value \in TriggerValues :
          (SetAnalysisTrigger(value)
             /\ (value \in {0, NullTrigger} \/ currentAccountId = NULL))
            => timers' = timers
     /\ \A value \in IdValues :
          (SetAccountId(value) /\ value = NULL /\ recordId = NULL)
            => timers' = timers]_vars

\* C6 witness: a panel with a resolved account has just been given the
\* trigger 0 (mounted under a Shell that never analysed) and nothing is
\* scheduled or fetched.
C6_Witness ==
  /\ op = "analysisTrigger"
  /\ _analysisTrigger = 0
  /\ currentAccountId # NULL
  /\ previousTrigger = NullTrigger
  /\ \A i \in 1..Len(timers) : timers[i].delay # 0

\* C7: when the refresh routine has run with no account identifier resolved,
\* the panel is in the local error state, not loading, with (Research) no
\* ticker running; and no fetch in flight has an empty identifier.
C7_NoAccountFailsFast ==
  /\ (IsRefresh(op) /\ currentAccountId = NULL) =>
        /\ hasError
        /\ errorMessage = "No account ID provided."
        /\ ~isLoading
        /\ kind = "research" =>
             /\ loadingMessageInterval = NoInterval
             /\ currentLoadingMessage = ""
             /\ intervals = {}
  /\ \A i \in 1..Len(fetches) : fetches[i].accountId # NULL

\* C8: the settling of a fetch, resolved or rejected, leaves isLoading false;
\* and a loading panel eventually stops loading.
C8_LoadingTerminates ==
  /\ [][IsSettle(op') /\ arrived' # NoData => ~isLoading']_vars
  /\ isLoading ~> ~isLoading

\* C8 witness: a fetch has been rejected and the panel is not loading.
C8_Witness ==
  /\ op = "reject"
  /\ hasError
  /\ ~isLoading

\* C9: after the Health panel's fetch resolved with a payload carrying a
\* soft error (warning toast), hasError is false and the payload is stored.
C9_SoftErrorNotHardFailure ==
  (kind = "health" /\ op = "resolve" /\ Len(toasts) = 1
     /\ toasts[1].variant = "warning")
    => /\ ~hasError
       /\ healthData = HealthDataOf(HealthSoft)
       /\ metrics = HealthSoft.metrics

\* what a resolved payload leaves in the panel's data fields
Stores(result) ==
  IF kind = "health"
    THEN healthData' = HealthDataOf(result) /\ metrics' = result.metrics
    ELSE data' = result

\* C10: a fetch in flight leaves the list only by settling, one at a time,
\* and every resolved payload is stored whatever its request and whatever
\* else is in flight.
C10_LastArrivalWins ==
  [][/\ ~IsSettle(op') => SubSeq(fetches', 1, Len(fetches)) = fetches
     /\ IsSettle(op') => Len(fetches') = Len(fetches) - 1
     /\ \A i \in 1..Len(fetches) : \A result \in FetchResults :
          (Resolve(i, result) /\ (kind = "health" => result # NoData))
            => Stores(result)]_vars

\* C10 witness: the response applied last belongs to a request that a later
\* request had overtaken, and to an identifier that is no longer current.
C10_Witness ==
  /\ op = "resolve"
  /\ fetches = <<>>
  /\ arrived.overtaken
  /\ arrived.accountId # currentAccountId
  /\ IF kind = "health" THEN healthData # NoData ELSE data # NoData

\* a step in which a setTimeout callback of the Shell runs
ShellTimerRuns == Len(shellTimers') < Len(shellTimers)

\* a step in which a deferred-refresh callback of the panel runs
PanelTimerRuns == Len(timers') < Len(timers)

\* a step in which a rotation callback of the Research panel runs
RotationRuns == op' = "interval" /\ loadingMessageIndex' # loadingMessageIndex

\* C11: no timer callback of a component runs after the component was torn
\* down: the Shell's 200 ms and 500 ms timeouts, the panels' 0 ms and 100 ms
\* timeouts and the Research panel's rotation interval run only while their
\* component is connected.
C11_NoCallbackAfterTeardown ==
  [][/\ ShellTimerRuns => shellConnected
     /\ PanelTimerRuns => connected
     /\ RotationRuns => connected]_vars

IsSave(name) == name \in {"handleSaveToRecord", "saveResolve", "saveReject"}

\* C12: handleSaveToRecord, on its success, failure and no-account paths,
\* changes nothing of the panel but isSaving and dispatches exactly one toast
\* when it ends (none while the call is in flight); a refresh that starts
\* while a save is in flight issues its fetch and leaves isSaving alone.
C12_SaveLeavesViewAlone ==
  [][/\ IsSave(op') =>
          /\ UNCHANGED <<viewVars, guardVars, tickerVars, timers, fetches>>
          /\ Len(toasts') = (IF Len(saves') > Len(saves) THEN 0 ELSE 1)
          /\ isSaving' = (Len(saves') > Len(saves))
     /\ (isSaving /\ PanelTimerRuns /\ IsRefresh(op') /\ currentAccountId # NULL) =>
          /\ isLoading'
          /\ fetches' = Append(fetches, NewFetch(currentAccountId))
          /\ isSaving']_vars

\* C12 witness: a refresh has started while a save was in flight, over data of
\* an earlier load.
C12_Witness ==
  /\ op = "handleResearch"
  /\ isSaving
  /\ saves # <<>>
  /\ isLoading
  /\ data # NoData

\* the change events whose detail carries an empty identifier
ClearingEvents == {event \in ChangeEvents \ {NoData} : event.recordId = NULL}

\* C13: in the Shell an account-selection event with an empty identifier
\* sets selectedAccountId and selectedAccountName to null and leaves
\* analysisTrigger, isAnalyzing and the timer queue unchanged.
C13_EmptySelectionClears ==
  [][\A event \in ClearingEvents :
       HandleAccountChange(event) =>
         /\ selectedAccountId' = NULL
         /\ selectedAccountName' = NULL
         /\ UNCHANGED <<analysisTrigger, isAnalyzing, shellTimers>>
         /\ toasts' = <<>>]_vars

\* C13 witness: the selection was cleared after an account had been selected,
\* while the busy flag of that selection was still up.
C13_Witness ==
  /\ op = "handleAccountChange"
  /\ selectedAccountId = NULL
  /\ selectedAccountName = NULL
  /\ analysisTrigger > 0
  /\ isAnalyzing
  /\ \E i \in 1..Len(shellTimers) : shellTimers[i].delay = 500

\* a busy-flag reset scheduled by a trigger bump has not run yet
ResetPending == \E i \in 1..Len(shellTimers) : shellTimers[i].delay = 500

\* C14: in the Shell isAnalyzing is true from a trigger bump until the 500 ms
\* timer of that bump has run, and false once no reset timer is pending.
C14_BusyUntilOwnReset == isAnalyzing = ResetPending

\* a step in which triggerAnalysis() stamps the trigger
BumpRuns ==
  /\ Len(shellTimers') > Len(shellTimers)
  /\ shellTimers'[Len(shellTimers')].delay = 500

\* C15: every trigger bump assigns a trigger value strictly greater than the
\* previous one, and the trigger never decreases.
C15_TriggerStrictlyIncreases ==
  [][/\ BumpRuns => analysisTrigger' > analysisTrigger
     /\ analysisTrigger' >= analysisTrigger]_vars

\* what the panel shows of an earlier successful load
Populated == IF kind = "health" THEN healthData # NoData ELSE data # NoData

EmptyResults == {r \in ResearchResults : r = NoData \/ r.overview = <<>>}

\* C17: in the Research panel a call that succeeds with a null payload or a
\* payload without an overview dispatches one info toast, leaves hasError and
\* errorMessage as they are (false and empty when they were), and stores the
\* payload, null included, in place of the data held before.
C17_EmptyResultIsInfo ==
  [][\A i \in 1..Len(fetches) : \A result \in EmptyResults :
       (kind = "research" /\ Resolve(i, result)) =>
         /\ Len(toasts') = 1
         /\ toasts'[1].variant = "info"
         /\ UNCHANGED <<hasError, errorMessage>>
         /\ data' = result]_vars

\* C17 witness: a null payload has arrived, the panel shows no error and
\* holds no data.
C17_Witness ==
  /\ kind = "research"
  /\ op = "resolve"
  /\ Len(toasts) = 1
  /\ toasts[1].variant = "info"
  /\ ~hasError
  /\ errorMessage = ""
  /\ data = NoData
  /\ ~isLoading

---------------------------------------------------------------------------
(* Health panel: the formatted contract value                              *)

\* closedWonACV as the server may return it: multiples of 1, 50, 500, 50000
\* and 500000, and the integers next to each
AcvValues ==
  { v \in { m * s + d : m \in 0..MaxAcvUnits, s \in {1, 50, 500, 50000, 500000},
                        d \in {-1, 0, 1} } : v >= 0 }

\* result.metrics with and without the closedWonACV field
MetricsOf(v) == [closedWonACV |-> v, closedLostACV |-> 0]
MetricsWithoutAcv == [closedLostACV |-> 3500]

HealthWith(m) == [HealthOk EXCEPT !.metrics = m]

FormatResults ==
  {HealthWith(MetricsOf(v)) : v \in AcvValues}
    \cup {HealthWith(MetricsWithoutAcv), HealthWith(NoData)}

\* floor(log2(q)) of an integer q >= 1: the binary exponent of a quotient
\* whose integer part is q
RECURSIVE Log2Floor(_)
Log2Floor(q) == IF q < 2 THEN 0 ELSE 1 + Log2Floor(q \div 2)

\* (x * 2^e) % d
RECURSIVE ScaledRemainder(_, _, _)
ScaledRemainder(x, e, d) ==
  IF e = 0 THEN x % d ELSE ScaledRemainder((2 * x) % d, e - 1, d)

\* (value / d).toFixed(1) for integers value >= d.  The quotient is the
\* double nearest to value / d (53 significant bits); toFixed(1) takes the
\* tenth nearest to that double, the larger one when both are as near.  The
\* double decides only where value / d lies midway between two tenths: it is
\* below value / d when the remainder of the 53-bit division is under d / 2
\* and not 0.
toFixed1(value, d) ==
  LET unit == d \div 10
      low == value \div unit
      rem == value % unit
      r == ScaledRemainder(value % d, 52 - Log2Floor(value \div d), d)
      up == IF 2 * rem # unit THEN 2 * rem > unit ELSE (r = 0 \/ 2 * r > d)
      n == IF up THEN low + 1 ELSE low
  IN ToString(n \div 10) \o "." \o ToString(n % 10)

\* mutant: the boundaries belong to the smaller unit
formatCurrency_ExclusiveBounds(value) ==
  IF value > 1000000
    THEN "$" \o toFixed1(value, 1000000) \o "M"
    ELSE IF value > 1000
      THEN "$" \o toFixed1(value, 1000) \o "K"
      ELSE "$" \o ToString(value)

\* formatCurrency(value) for a non-negative integer
formatCurrency(value) ==
  IF value >= 1000000
    THEN "$" \o toFixed1(value, 1000000) \o "M"
    ELSE IF value >= 1000
      THEN "$" \o toFixed1(value, 1000) \o "K"
      ELSE "$" \o ToString(value)

\* get closedWonACVFormatted()
closedWonACVFormatted ==
  IF metrics = NoData \/ "closedWonACV" \notin DOMAIN metrics
       \/ metrics.closedWonACV = 0
    THEN "$0"
    ELSE formatCurrency(metrics.closedWonACV)

\* The Health panel of a record page, refreshed by trigger, every metrics
\* payload.
FormatInit == Init /\ kind = "health" /\ recordId = "R"

FormatNext ==
  \/ \E value \in 1..MaxTrigger : SetAnalysisTrigger(value)
  \/ \E i \in 1..MaxTimers : FireTimeout(i)
  \/ \E result \in FormatResults : Resolve(1, result)

FormatSpec == FormatInit /\ [][FormatNext]_vars

\* the numbers of tenths nearest to v / d (two of them when v / d lies midway)
NearestTenths(v, d) ==
  { n \in {(10 * v) \div d, (10 * v) \div d + 1} :
      2 * (IF 10 * v >= n * d THEN 10 * v - n * d ELSE n * d - 10 * v) <= d }

\* n tenths written with one decimal
Decimal1(n) == ToString(n \div 10) \o "." \o ToString(n % 10)

\* C18: closedWonACVFormatted is "$0" when metrics or closedWonACV is missing
\* or 0; otherwise it is "$", v / 1000000 to one decimal and "M" for
\* v >= 1000000, "$", v / 1000 to one decimal and "K" for
\* 1000 <= v < 1000000, and "$" and v below 1000; 2500000 gives "$2.5M" and
\* 3500 gives "$3.5K".
C18_AcvFormatted ==
  IF metrics = NoData \/ "closedWonACV" \notin DOMAIN metrics
       \/ metrics.closedWonACV = 0
    THEN closedWonACVFormatted = "$0"
    ELSE LET v == metrics.closedWonACV
             out == closedWonACVFormatted
         IN /\ v >= 1000000 =>
                 \E n \in NearestTenths(v, 1000000) : out = "$" \o Decimal1(n) \o "M"
            /\ (v >= 1000 /\ v < 1000000) =>
                 \E n \in NearestTenths(v, 1000) : out = "$" \o Decimal1(n) \o "K"
            /\ v < 1000 => out = "$" \o ToString(v)
            /\ v = 2500000 => out = "$2.5M"
            /\ v = 3500 => out = "$3.5K"

\* C18 witness: the server has returned closedWonACV = 3500 and the panel
\* shows "$3.5K".
C18_Witness ==
  /\ op = "resolve"
  /\ metrics # NoData
  /\ "closedWonACV" \in DOMAIN metrics
  /\ metrics.closedWonACV = 3500
  /\ closedWonACVFormatted = "$3.5K"

\* C19: in the Research panel every handleResearch resets loadingMessageIndex
\* to 0 and shows the first message, every interval tick advances the index
\* by one modulo the length of the list, and in every state
\* currentLoadingMessage is loadingMessages[loadingMessageIndex] while a
\* ticker is running and the empty string after stopLoadingMessages.
C19_MessageFollowsTicker ==
  /\ [][/\ (PanelTimerRuns /\ op' = "handleResearch") =>
             /\ loadingMessageIndex' = 0
             /\ currentAccountId # NULL => currentLoadingMessage' = LoadingMessages[1]
        /\ RotationRuns =>
             loadingMessageIndex' = (loadingMessageIndex + 1) % Len(LoadingMessages)]_vars
  /\ [](IF loadingMessageInterval # NoInterval
          THEN currentLoadingMessage = LoadingMessages[loadingMessageIndex + 1]
          ELSE currentLoadingMessage = "")

\* C20: every remote fetch is issued by a deferred callback, for the
\* effective account identifier as it is when that callback runs; the 0 ms
\* callback of the trigger issues one whenever an identifier resolves then,
\* and the 100 ms callback of the accountId setter issues one exactly when the
\* effective identifier still equals the assigned value.
C20_FetchUsesCurrentIdentifier ==
  [][/\ Len(fetches') > Len(fetches) =>
          /\ PanelTimerRuns
          /\ currentAccountId # NULL
          /\ fetches' = Append(fetches, [accountId |-> currentAccountId,
                                         overtaken |-> FALSE])
     /\ \A i \in 1..Len(timers) :
          FireTimeout(i) =>
            ((Len(fetches') > Len(fetches)) <=>
               /\ currentAccountId # NULL
               /\ timers[i].delay = 100 => currentAccountId = timers[i].value)]_vars

\* C20 witness: with a fetch for the former identifier in flight, the
\* trigger's callback has issued a fetch for the new identifier while the
\* 100 ms callback of that identifier's assignment is still pending.
C20_Witness ==
  /\ IsRefresh(op)
  /\ Len(fetches) = 2
  /\ fetches[1].accountId = "A"
  /\ fetches[2].accountId = "B"
  /\ _accountId = "B"
  /\ \E i \in 1..Len(timers) : timers[i].delay = 100 /\ timers[i].value = "B"

---------------------------------------------------------------------------
(* The page: the Shell with one of its panels                              *)

\* The Shell rerenders after a handler has changed selectedAccountId or
\* analysisTrigger: the panel's accountId and analysisTrigger setters run,
\* each only when its value differs from the one passed before, one after
\* the other with no callback in between, in the order of the template.
Rerender(accountFirst) ==
  LET setsAccount == selectedAccountId # _accountId
      setsTrigger == analysisTrigger # _analysisTrigger
      idAtTrigger ==
        IF accountFirst /\ setsAccount
          THEN (IF selectedAccountId # NULL THEN selectedAccountId ELSE recordId)
          ELSE currentAccountId
      byAccount == setsAccount /\ AccountIdChanged(selectedAccountId, _accountId)
      byTrigger == /\ setsTrigger
                   /\ TruthyTrigger(analysisTrigger)
                   /\ analysisTrigger # previousTrigger
                   /\ idAtTrigger # NULL
      ofAccount == IF byAccount
                     THEN << [delay |-> 100, value |-> selectedAccountId] >>
                     ELSE <<>>
      ofTrigger == IF byTrigger THEN << [delay |-> 0, value |-> NULL] >> ELSE <<>>
      scheduled == IF accountFirst THEN ofAccount \o ofTrigger
                                   ELSE ofTrigger \o ofAccount
  IN
  /\ connected
  /\ shellConnected
  /\ setsAccount \/ setsTrigger
  /\ Len(timers) + Len(scheduled) <= MaxTimers
  /\ _accountId' = selectedAccountId
  /\ previousAccountId' = IF byAccount THEN selectedAccountId ELSE previousAccountId
  /\ _analysisTrigger' = analysisTrigger
  /\ previousTrigger' = IF byTrigger THEN analysisTrigger ELSE previousTrigger
  /\ timers' = timers \o scheduled
  /\ toasts' = <<>>
  /\ op' = "rerender"
  /\ arrived' = NoData
  /\ UNCHANGED <<kind, connected, recordId, viewVars, isSaving, tickerVars,
                 fetches, saves, shellVars>>

\* the panel has received the Shell's values and has nothing pending
PanelIdle ==
  /\ _accountId = selectedAccountId
  /\ _analysisTrigger = analysisTrigger \/ ~shellConnected
  /\ timers = <<>>
  /\ fetches = <<>>

\* The user acts on the Shell when the panel has come to rest.
PageNext ==
  \/ ShellConnect
  \/ \E event \in ChangeEvents : PanelIdle /\ HandleAccountChange(event)
  \/ PanelIdle /\ HandleAnalyze
  \/ \E i \in 1..MaxTimers : ShellTimeout(i)
  \/ Tick
  \/ \E accountFirst \in BOOLEAN : Rerender(accountFirst)
  \/ \E i \in 1..MaxTimers : FireTimeout(i)
  \/ \E i \in 1..MaxFetches : \E result \in FetchResults : Resolve(i, result)
  \/ \E i \in 1..MaxFetches : \E error \in Errors : Reject(i, error)

PageInit == Init /\ recordId = NULL

PageSpec == PageInit /\ [][PageNext]_vars

\* a step in which the panel receives a new non-empty account identifier
\* together with a new trigger value
SelectionArrives ==
  /\ op' = "rerender"
  /\ _accountId' # _accountId
  /\ _accountId' # NULL
  /\ _analysisTrigger' # _analysisTrigger

\* C21: one account selection with a new non-empty identifier, which changes
\* the panel's accountId and analysisTrigger together, makes the panel issue
\* exactly one fetch: the panel schedules a refresh, a fetch is issued only
\* when none is in flight and leaves no further refresh pending, and at most
\* one fetch is outstanding.
C21_OneFetchPerSelection ==
  /\ [][/\ SelectionArrives => timers' # <<>>
        /\ Len(fetches') > Len(fetches) => (fetches = <<>> /\ timers' = <<>>)]_vars
  /\ [](Len(fetches) <= 1)

\* C22: isLoading is true whenever a remote fetch of the panel is in flight,
\* and in the Research panel isSaving is true whenever a save is in flight,
\* overlapping fetches and saves included.
C22_BusyWhileInFlight ==
  /\ fetches # <<>> => isLoading
  /\ saves # <<>> => isSaving

====
